---------------------------- MODULE Spec2Model ----------------------------
(***************************************************************************)
(* A model of the video streaming endpoint of src/web.py: the handler      *)
(* stream_video, the two response builders partial_response and            *)
(* full_response with their chunk generators, and the watch-history        *)
(* store the handler updates.                                              *)
(*                                                                         *)
(* Strings are sequences of one-character strings, so that the parsing of  *)
(* the Range header (str.replace, str.split, int) and the formatting of    *)
(* the Content-Range header are computed, not assumed.                     *)
(***************************************************************************)
EXTENDS Integers, Sequences, FiniteSets, TLC

(***************************************************************************)
(* Bounds of the model.                                                    *)
(***************************************************************************)
\* Largest file length, in bytes, and largest number written in a generated
\* Range header (so that a start or an end past the last byte occurs).
MaxSize == 3
\* Largest chunk size handed to the response builders.
MaxChunk == 3
\* The most videos a folder opened in a desktop player holds.
MaxClips == 3
\* The most player processes a desktop player launches.
MaxLaunch == 3

(***************************************************************************)
(* Python string primitives.                                               *)
(***************************************************************************)
Digits == <<"0", "1", "2", "3", "4", "5", "6", "7", "8", "9">>

IsDigit(c) == \E i \in 1..10 : Digits[i] = c

DigitVal(c) == (CHOOSE i \in 1..10 : Digits[i] = c) - 1

\* str.replace(old, new): every non-overlapping occurrence, left to right.
RECURSIVE PyReplace(_, _, _)
PyReplace(s, old, new) ==
    IF Len(s) < Len(old) \/ Len(old) = 0 THEN s
    ELSE IF SubSeq(s, 1, Len(old)) = old
         THEN new \o PyReplace(SubSeq(s, Len(old) + 1, Len(s)), old, new)
         ELSE <<Head(s)>> \o PyReplace(Tail(s), old, new)

\* str.split(sep) for a one-character separator: always at least one part.
RECURSIVE PySplit(_, _)
PySplit(s, sep) ==
    IF \A i \in 1..Len(s) : s[i] # sep THEN <<s>>
    ELSE LET i == CHOOSE k \in 1..Len(s) :
                     s[k] = sep /\ \A j \in 1..(k - 1) : s[j] # sep
         IN  <<SubSeq(s, 1, i - 1)>> \o PySplit(SubSeq(s, i + 1, Len(s)), sep)

\* str.strip() of blanks.
RECURSIVE PyStrip(_)
PyStrip(s) ==
    IF Len(s) = 0 THEN s
    ELSE IF Head(s) = " " THEN PyStrip(Tail(s))
    ELSE IF s[Len(s)] = " " THEN PyStrip(SubSeq(s, 1, Len(s) - 1))
    ELSE s

RECURSIVE DigitsValue(_)
DigitsValue(s) ==
    IF Len(s) = 0 THEN 0
    ELSE 10 * DigitsValue(SubSeq(s, 1, Len(s) - 1)) + DigitVal(s[Len(s)])

\* Mutant: int('') is 0 instead of a ValueError.
PyIntEmptyZero(s) ==
    LET t    == PyStrip(s)
        sign == IF Len(t) > 0 /\ t[1] \in {"+", "-"} THEN t[1] ELSE ""
        d    == IF sign = "" THEN t ELSE Tail(t)
        ok   == \A i \in 1..Len(d) : IsDigit(d[i])
    IN  [ok  |-> ok,
         val |-> IF ~ok THEN 0
                 ELSE IF sign = "-" THEN 0 - DigitsValue(d) ELSE DigitsValue(d)]

\* int(s): blanks around, an optional sign, then one or more decimal digits;
\* anything else raises ValueError (ok = FALSE).
PyInt(s) ==
    LET t    == PyStrip(s)
        sign == IF Len(t) > 0 /\ t[1] \in {"+", "-"} THEN t[1] ELSE ""
        d    == IF sign = "" THEN t ELSE Tail(t)
        ok   == Len(d) > 0 /\ \A i \in 1..Len(d) : IsDigit(d[i])
    IN  [ok  |-> ok,
         val |-> IF ~ok THEN 0
                 ELSE IF sign = "-" THEN 0 - DigitsValue(d) ELSE DigitsValue(d)]

\* str(n) of an integer, as an f-string formats it.
RECURSIVE PyStrNat(_)
PyStrNat(n) ==
    IF n < 10 THEN <<Digits[n + 1]>>
    ELSE PyStrNat(n \div 10) \o <<Digits[(n % 10) + 1]>>

PyStr(n) == IF n < 0 THEN <<"-">> \o PyStrNat(0 - n) ELSE PyStrNat(n)

Min(a, b) == IF a <= b THEN a ELSE b


(***************************************************************************)
(* Requests: the files that may be asked for and the Range header values.  *)
(***************************************************************************)
Procs == {"t1", "t2"}

Files == {"a.mp4", "b.mp4"}

\* The byte stored at offset off of file f: every offset of every file holds a
\* different value, so a byte delivered from a wrong place is visible.
ByteAt(f, off) == IF f = "a.mp4" THEN off + 1 ELSE off + 101

RECURSIVE FileData(_, _)
FileData(f, n) == IF n = 0 THEN <<>> ELSE Append(FileData(f, n - 1), ByteAt(f, n - 1))

BytesUnit == <<"b", "y", "t", "e", "s", "=">>

NoHeader == [present |-> FALSE, text |-> <<>>]

Hdr(t) == [present |-> TRUE, text |-> t]

\* "bytes=<s>-<e>", "bytes=<s>-" and "bytes=-<n>".
RangeText(s, e) == BytesUnit \o PyStr(s) \o <<"-">> \o PyStr(e)

OpenText(s) == BytesUnit \o PyStr(s) \o <<"-">>

SuffixText(n) == BytesUnit \o <<"-">> \o PyStr(n)

WrongUnitText == <<"i", "t", "e", "m", "s", "=", "0", "-", "1">>

NonNumericStartText == BytesUnit \o <<"x", "-", "1">>

NonNumericEndText == BytesUnit \o <<"0", "-", "x">>

NoDashText == BytesUnit \o <<"0", "1">>

MultiRangeText == BytesUnit \o <<"0", "-", "0", ",", "1", "-", "1">>

MalformedTexts ==
    {WrongUnitText, NonNumericStartText, NonNumericEndText, NoDashText, MultiRangeText}

\* Values int() accepts although the header grammar does not produce them.
OddTexts == {<<"0", "-", "1">>, BytesUnit \o <<" ", "+", "1", "-", " ", "2">>,
             BytesUnit \o <<"0", "-", "1", "0">>}

Headers ==
    {NoHeader, Hdr(<<>>)}
    \cup {Hdr(RangeText(s, e)) : s \in 0..MaxSize, e \in 0..MaxSize}
    \cup {Hdr(OpenText(s)) : s \in 0..MaxSize}
    \cup {Hdr(SuffixText(n)) : n \in 1..2}
    \cup {Hdr(t) : t \in MalformedTexts \cup OddTexts}

ChunkSizes == 1..MaxChunk

(***************************************************************************)
(* State.                                                                  *)
(*   disk     each file: whether it exists, and its bytes                  *)
(*   histFile the persisted watch history (the file names it has keys for) *)
(*   rq       per worker thread: the request it serves, the handler's      *)
(*            locals, the response it returned, the generator's locals,    *)
(*            the file object, and what the client has received; also      *)
(*            what the request has done so far: opened (it called open),   *)
(*            parsed (it parsed a Range header), wrote (it saved the       *)
(*            history), ioError (a seek or read of its generator failed)   *)
(*   prev     per worker thread: the completed response to the same        *)
(*            request (same file, same Range header, file unchanged) that  *)
(*            preceded the current one, if any                             *)
(*   workers  the threads that accept requests                             *)
(***************************************************************************)
VARIABLES disk, histFile, rq, prev, workers, pm, gui

vars == <<disk, histFile, rq, prev, workers, pm, gui>>

IdleReq ==
    [pc |-> "idle", file |-> "a.mp4", hdr |-> NoHeader, chunk |-> 1,
     stable |-> TRUE, hist |-> {}, total |-> 0,
     open |-> FALSE, pos |-> 0,
     kind |-> "none", start |-> 0, end |-> 0, started |-> FALSE, remaining |-> 0,
     status |-> 0, contentRange |-> <<>>, contentLength |-> 0, errorBody |-> FALSE,
     body |-> <<>>, chunks |-> <<>>, nreads |-> 0, maxOff |-> -1,
     opened |-> FALSE, parsed |-> FALSE, wrote |-> FALSE, ioError |-> FALSE,
     histFailed |-> FALSE, osError |-> ""]

NoPrev ==
    [valid |-> FALSE, file |-> "a.mp4", hdr |-> NoHeader, chunk |-> 1, status |-> 0,
     contentRange |-> <<>>, contentLength |-> 0, errorBody |-> FALSE, body |-> <<>>,
     histFailed |-> FALSE, osError |-> ""]

(***************************************************************************)
(* pm is the PlaylistManager of web.py with its playlists file, gui a      *)
(* desktop player (ModernMediaPlayer or SimpleMediaPlayer).  A playlist    *)
(* name maps to [present, videos]: present is whether the name is a key.   *)
(***************************************************************************)
PlNames == {"mix", "new"}

NoList == [present |-> FALSE, videos |-> <<>>]

EmptyList == [present |-> TRUE, videos |-> <<>>]

NoPlaylists == [n \in PlNames |-> NoList]

\* op .. listing describe the last call: its arguments, its return value or
\* HTTP status and list, and the playlists as they were before it.
NoManager ==
    [playlists |-> NoPlaylists, file |-> NoPlaylists,
     op |-> "none", name |-> "", video |-> "", result |-> FALSE,
     status |-> 0, listing |-> <<>>, before |-> NoPlaylists]

\* Video paths are numbered in sorted order and processes in the order of
\* their launch; running is the set of launched player processes nobody has
\* terminated; current_process = 0 is None and folder_path = {} is not set.
\* op .. launchedBefore describe the last call: the path play_file was called
\* with (0: not called), and current_index and launched before the call.
NoPlayer ==
    [variant |-> "none", os |-> "posix", folder_path |-> {}, playlist |-> <<>>,
     current_index |-> -1, current_process |-> 0, launched |-> 0, running |-> {},
     op |-> "none", played |-> 0, before |-> -1, launchedBefore |-> 0]

\* The response is over: its body was exhausted (or it was an error answer),
\* the client left, or the generator raised.
Ended(r) == r.pc \in {"done", "aborted", "failed"}

(***************************************************************************)
(* The file object: read(n) returns at most n bytes from the cursor and     *)
(* read(-1) everything up to the end of the file; read(n) with n < -1       *)
(* raises ValueError.                                                      *)
(***************************************************************************)
ReadRaises(n) == n < -1

FileRead(data, pos, n) ==
    LET last == IF n < 0 THEN Len(data) ELSE Min(pos + n, Len(data))
    IN  IF pos >= last THEN <<>> ELSE SubSeq(data, pos + 1, last)

(***************************************************************************)
(* stream_video, lines 415-418: the Range header to (start, end).          *)
(***************************************************************************)
\* Mutant: byte_end is taken as written, without min(..., total_size - 1).
ParseRangeNoClamp(text, total_size) ==
    LET parts == PySplit(PyReplace(text, BytesUnit, <<>>), "-")
    IN  IF Len(parts) # 2 THEN [ok |-> FALSE, start |-> 0, end |-> 0]
        ELSE LET byte_start == PyInt(parts[1])
                 byte_end   == IF parts[2] # <<>> THEN PyInt(parts[2])
                               ELSE [ok |-> TRUE, val |-> total_size - 1]
             IN  IF ~byte_start.ok \/ ~byte_end.ok
                 THEN [ok |-> FALSE, start |-> 0, end |-> 0]
                 ELSE [ok |-> TRUE, start |-> byte_start.val, end |-> byte_end.val]

\* Mutant: an omitted end means total_size instead of total_size - 1.
ParseRangeOpenEndAtSize(text, total_size) ==
    LET parts == PySplit(PyReplace(text, BytesUnit, <<>>), "-")
    IN  IF Len(parts) # 2 THEN [ok |-> FALSE, start |-> 0, end |-> 0]
        ELSE LET byte_start == PyInt(parts[1])
                 byte_end   == IF parts[2] # <<>> THEN PyInt(parts[2])
                               ELSE [ok |-> TRUE, val |-> total_size]
             IN  IF ~byte_start.ok \/ ~byte_end.ok
                 THEN [ok |-> FALSE, start |-> 0, end |-> 0]
                 ELSE [ok |-> TRUE, start |-> byte_start.val,
                       end |-> IF parts[2] # <<>> THEN Min(byte_end.val, total_size - 1)
                               ELSE byte_end.val]

ParseRange(text, total_size) ==
    LET parts == PySplit(PyReplace(text, BytesUnit, <<>>), "-")
    IN  IF Len(parts) # 2 THEN [ok |-> FALSE, start |-> 0, end |-> 0]
        ELSE LET byte_start == PyInt(parts[1])
                 byte_end   == IF parts[2] # <<>> THEN PyInt(parts[2])
                               ELSE [ok |-> TRUE, val |-> total_size - 1]
             IN  IF ~byte_start.ok \/ ~byte_end.ok
                 THEN [ok |-> FALSE, start |-> 0, end |-> 0]
                 ELSE [ok |-> TRUE, start |-> byte_start.val,
                       end |-> Min(byte_end.val, total_size - 1)]

\* if range_header: a header that is present and not the empty string.
HasRange(h) == h.present /\ h.text # <<>>

ContentRangeText(start, end, total) ==
    <<"b", "y", "t", "e", "s", " ">> \o PyStr(start) \o <<"-">> \o PyStr(end)
        \o <<"/">> \o PyStr(total)

\* The Response partial_response returns, on the request record r.
PartialResponse(r, start, end, total) ==
    [r EXCEPT !.kind = "partial", !.start = start, !.end = end,
              !.status = 206,
              !.contentRange = ContentRangeText(start, end, total),
              !.contentLength = end - start + 1,
              !.pc = "stream"]

\* The Response full_response returns.
FullResponse(r, total) ==
    [r EXCEPT !.kind = "full", !.status = 200, !.contentLength = total,
              !.pc = "stream"]

\* return {'error': ...}, code
ErrorResponse(r, code) ==
    [r EXCEPT !.kind = "error", !.status = code, !.errorBody = TRUE, !.pc = "done"]

(***************************************************************************)
(* The generators of partial_response and full_response.  One call of      *)
(* next() runs the generator to its next yield or to its end: the first    *)
(* call also runs the lines before the loop (remaining, and the seek of    *)
(* the partial generator).                                                 *)
(***************************************************************************)
\* Mutant: the full generator starts from total - 1.
GenRemainingFullShort(r) ==
    IF r.started THEN r.remaining
    ELSE IF r.kind = "partial" THEN r.end - r.start + 1 ELSE r.total - 1

\* remaining as the loop test reads it on this call of next().
GenRemaining(r) ==
    IF r.started THEN r.remaining
    ELSE IF r.kind = "partial" THEN r.end - r.start + 1 ELSE r.total

\* Mutant: the partial generator does not seek.
GenCursorNoSeek(r) == r.pos

\* Mutant: the responses to one file read through one shared file object, whose
\* cursor is wherever the response that read furthest left it.
GenCursorShared(r) ==
    IF ~r.started /\ r.kind = "partial" THEN r.start
    ELSE LET others == {rq[q].pos : q \in {x \in Procs : rq[x].file = r.file /\ rq[x].opened}}
         IN  CHOOSE m \in others \cup {r.pos} : \A k \in others \cup {r.pos} : k <= m

\* The cursor of the file object when the loop reads: file.seek(start) comes
\* first in the partial generator, the full generator reads from where open()
\* left the cursor.
GenCursor(r) ==
    IF ~r.started /\ r.kind = "partial" THEN r.start ELSE r.pos

\* Mutant: every read asks for a whole chunk.
ReadSizeWholeChunk(r) == r.chunk

\* chunk = min(chunk_size, remaining)
ReadSize(r) == Min(r.chunk, GenRemaining(r))

\* The generator returns (while remaining is false, or the read gave no data).
GenStop(r, didRead) ==
    [r EXCEPT !.started = TRUE, !.remaining = GenRemaining(r), !.pos = GenCursor(r),
              !.nreads = IF didRead THEN @ + 1 ELSE @,
              !.pc = "done"]

\* remaining -= len(data); yield data
GenYield(r, data) ==
    [r EXCEPT !.started = TRUE,
              !.remaining = GenRemaining(r) - Len(data),
              !.pos = GenCursor(r) + Len(data),
              !.nreads = @ + 1,
              !.body = @ \o data,
              !.chunks = Append(@, Len(data)),
              !.maxOff = GenCursor(r) + Len(data) - 1]

\* file.read raises: the exception leaves the generator and ends the response.
GenRaise(r) ==
    [r EXCEPT !.started = TRUE, !.remaining = GenRemaining(r), !.pos = GenCursor(r),
              !.nreads = @ + 1, !.pc = "failed"]

\* Mutant: a read that returns no data raises instead of ending the loop.
GenNextEofRaises(r, fileData) ==
    IF GenRemaining(r) = 0 THEN GenStop(r, FALSE)
    ELSE IF ReadRaises(ReadSize(r)) THEN GenRaise(r)
    ELSE LET data == FileRead(fileData, GenCursor(r), ReadSize(r))
         IN  IF data = <<>> THEN GenRaise(r) ELSE GenYield(r, data)

GenNext(r, fileData) ==
    IF GenRemaining(r) = 0 THEN GenStop(r, FALSE)
    ELSE IF ReadRaises(ReadSize(r)) THEN GenRaise(r)
    ELSE LET data == FileRead(fileData, GenCursor(r), ReadSize(r))
         IN  IF data = <<>> THEN GenStop(r, TRUE) ELSE GenYield(r, data)

(***************************************************************************)
(* The steps of a request.                                                 *)
(***************************************************************************)
\* What a completed response leaves to compare the next one with.
Snapshot(r) ==
    [valid |-> TRUE, file |-> r.file, hdr |-> r.hdr, chunk |-> r.chunk,
     status |-> r.status, contentRange |-> r.contentRange,
     contentLength |-> r.contentLength, errorBody |-> r.errorBody, body |-> r.body,
     histFailed |-> r.histFailed, osError |-> r.osError]

\* A request GET /video/<f> with Range header h arrives at thread p; the
\* response builders are given chunk size c.
Begin(p, f, h, c) ==
    /\ p \in workers
    /\ rq[p].pc = "idle"
    /\ prev' = [prev EXCEPT ![p] = IF @.valid /\ @.file = f /\ @.hdr = h THEN @ ELSE NoPrev]
    /\ rq' = [rq EXCEPT ![p] =
                 [IdleReq EXCEPT !.pc = "exists", !.file = f, !.hdr = h, !.chunk = c,
                                 !.open = rq[p].open, !.pos = rq[p].pos]]
    /\ UNCHANGED <<disk, histFile, workers, pm, gui>>

\* Mutant: the existence check is missing.
CheckExistsSkipped(p) ==
    /\ rq[p].pc = "exists"
    /\ rq' = [rq EXCEPT ![p].pc = "load"]
    /\ UNCHANGED <<disk, histFile, prev, workers, pm, gui>>

\* if not video_path.exists(): return {'error': 'Video not found'}, 404
CheckExists(p) ==
    /\ rq[p].pc = "exists"
    /\ rq' = [rq EXCEPT ![p] =
                 IF disk[rq[p].file].exists THEN [@ EXCEPT !.pc = "load"]
                 ELSE ErrorResponse(@, 404)]
    /\ UNCHANGED <<disk, histFile, prev, workers, pm, gui>>

\* history = load_json_file(WATCH_HISTORY_FILE, {})
LoadHistory(p) ==
    /\ rq[p].pc = "load"
    /\ rq' = [rq EXCEPT ![p].hist = histFile, ![p].pc = "save"]
    /\ UNCHANGED <<disk, histFile, prev, workers, pm, gui>>

\* history[filename] = ...; save_json_file(WATCH_HISTORY_FILE, history)
SaveHistory(p) ==
    /\ rq[p].pc = "save"
    /\ histFile' = rq[p].hist \cup {rq[p].file}
    /\ rq' = [rq EXCEPT ![p].hist = @ \cup {rq[p].file}, ![p].wrote = TRUE,
                         ![p].pc = "info"]
    /\ UNCHANGED <<disk, prev, workers, pm, gui>>

\* video_info = get_video_info(video_path); total_size = video_info['size']
GetVideoInfo(p) ==
    /\ rq[p].pc = "info"
    /\ rq' = [rq EXCEPT ![p].total = Len(disk[rq[p].file].data), ![p].pc = "open"]
    /\ UNCHANGED <<disk, histFile, prev, workers, pm, gui>>

\* Mutant: a file object that is still open is used again instead of opening
\* the file anew.
RespondCachedFile(r) ==
    LET o == [(IF r.open THEN r ELSE [r EXCEPT !.open = TRUE, !.pos = 0])
                 EXCEPT !.opened = TRUE, !.parsed = HasRange(r.hdr)]
    IN  IF HasRange(r.hdr)
        THEN LET rg == ParseRange(r.hdr.text, r.total)
             IN  IF rg.ok THEN PartialResponse(o, rg.start, rg.end, r.total)
                 ELSE ErrorResponse(o, 500)
        ELSE FullResponse(o, r.total)

\* From file = open(video_path, 'rb') to the handler's return: the Range
\* header is parsed and a response is built; an exception on the way is
\* answered with status 500.
Respond(r) ==
    LET o == [r EXCEPT !.open = TRUE, !.pos = 0, !.opened = TRUE,
                       !.parsed = HasRange(r.hdr)]
    IN  IF HasRange(r.hdr)
        THEN LET rg == ParseRange(r.hdr.text, r.total)
             IN  IF rg.ok THEN PartialResponse(o, rg.start, rg.end, r.total)
                 ELSE ErrorResponse(o, 500)
        ELSE FullResponse(o, r.total)

OpenAndRespond(p) ==
    /\ rq[p].pc = "open"
    /\ rq' = [rq EXCEPT ![p] = Respond(@)]
    /\ UNCHANGED <<disk, histFile, prev, workers, pm, gui>>

\* The server asks the response's generator for its next chunk.
NextChunk(p) ==
    /\ rq[p].pc = "stream"
    /\ rq' = [rq EXCEPT ![p] = GenNext(@, disk[rq[p].file].data)]
    /\ UNCHANGED <<disk, histFile, prev, workers, pm, gui>>

\* file.seek(start), the first thing the partial generator does, fails with an
\* I/O error: the exception leaves the generator.
SeekFails(p) ==
    /\ rq[p].pc = "stream"
    /\ ~rq[p].started /\ rq[p].kind = "partial"
    /\ rq' = [rq EXCEPT ![p].started = TRUE, ![p].ioError = TRUE, ![p].pc = "failed"]
    /\ UNCHANGED <<disk, histFile, prev, workers, pm, gui>>

\* Mutant: the failed read is swallowed and the loop goes on.
ReadFailsRetried(p) ==
    /\ rq[p].pc = "stream"
    /\ GenRemaining(rq[p]) # 0 /\ ~ReadRaises(ReadSize(rq[p]))
    /\ rq' = [rq EXCEPT ![p].started = TRUE, ![p].remaining = GenRemaining(rq[p]),
                         ![p].pos = GenCursor(rq[p]), ![p].nreads = @ + 1,
                         ![p].ioError = TRUE]
    /\ UNCHANGED <<disk, histFile, prev, workers, pm, gui>>

\* file.read(chunk) fails with an I/O error: nothing in the generator catches
\* it, so it leaves the generator and the response is over.
ReadFails(p) ==
    /\ rq[p].pc = "stream"
    /\ GenRemaining(rq[p]) # 0 /\ ~ReadRaises(ReadSize(rq[p]))
    /\ rq' = [rq EXCEPT ![p].started = TRUE, ![p].remaining = GenRemaining(rq[p]),
                         ![p].pos = GenCursor(rq[p]), ![p].nreads = @ + 1,
                         ![p].ioError = TRUE, ![p].pc = "failed"]
    /\ UNCHANGED <<disk, histFile, prev, workers, pm, gui>>

\* The client goes away mid-stream: the server closes the generator, which
\* ends it at its yield.  Neither generator has a finally clause or a with
\* block, so nothing else runs.
Disconnect(p) ==
    /\ rq[p].pc = "stream"
    /\ rq' = [rq EXCEPT ![p].pc = "aborted"]
    /\ UNCHANGED <<disk, histFile, prev, workers, pm, gui>>

\* No line of the module closes the file object opened by stream_video: it is
\* closed only if and when the interpreter finalizes it, some time after the
\* response that holds it has ended.  Until the thread opens its next file,
\* open and pos are those of the file object it opened last.
Finalize(p) ==
    /\ rq[p].pc # "stream"
    /\ rq[p].open
    /\ rq' = [rq EXCEPT ![p].open = FALSE, ![p].pos = 0]
    /\ UNCHANGED <<disk, histFile, prev, workers, pm, gui>>

\* The response has ended and the thread is free for the next request.  A
\* response the client received whole, from a file nobody changed, is kept to
\* compare the answer to a repetition of the request with.
Release(p) ==
    /\ Ended(rq[p])
    /\ prev' = [prev EXCEPT ![p] =
                   IF rq[p].pc = "done" /\ rq[p].stable THEN Snapshot(rq[p]) ELSE NoPrev]
    /\ rq' = [rq EXCEPT ![p] = [IdleReq EXCEPT !.open = rq[p].open, !.pos = rq[p].pos]]
    /\ UNCHANGED <<disk, histFile, workers, pm, gui>>

(***************************************************************************)
(* The environment: another program appends to a file or truncates it.     *)
(***************************************************************************)
Touched(f) ==
    /\ rq' = [p \in Procs |->
                 IF rq[p].file = f /\ rq[p].pc # "idle"
                 THEN [rq[p] EXCEPT !.stable = FALSE] ELSE rq[p]]
    /\ prev' = [p \in Procs |-> IF prev[p].file = f THEN NoPrev ELSE prev[p]]

Grow(f) ==
    /\ disk[f].exists
    /\ Len(disk[f].data) < MaxSize
    /\ disk' = [disk EXCEPT ![f].data = Append(@, ByteAt(f, Len(@)))]
    /\ Touched(f)
    /\ UNCHANGED <<histFile, workers, pm, gui>>

Truncate(f) ==
    /\ disk[f].exists
    /\ Len(disk[f].data) > 0
    /\ disk' = [disk EXCEPT ![f].data = SubSeq(@, 1, Len(@) - 1)]
    /\ Touched(f)
    /\ UNCHANGED <<histFile, workers, pm, gui>>

(***************************************************************************)
(* The specification: one thread serves one request after another.         *)
(***************************************************************************)
Init ==
    /\ \E n \in 0..MaxSize :
          disk = [f \in Files |->
                     IF f = "a.mp4" THEN [exists |-> TRUE, data |-> FileData(f, n)]
                     ELSE [exists |-> FALSE, data |-> <<>>]]
    /\ histFile = {}
    /\ rq = [p \in Procs |-> IdleReq]
    /\ prev = [p \in Procs |-> NoPrev]
    /\ workers = {"t1"}
    /\ pm = NoManager
    /\ gui = NoPlayer

Next ==
    \/ \E p \in Procs, f \in Files, h \in Headers, c \in ChunkSizes : Begin(p, f, h, c)
    \/ \E p \in Procs : CheckExists(p)
    \/ \E p \in Procs : LoadHistory(p)
    \/ \E p \in Procs : SaveHistory(p)
    \/ \E p \in Procs : GetVideoInfo(p)
    \/ \E p \in Procs : OpenAndRespond(p)
    \/ \E p \in Procs : NextChunk(p)
    \/ \E p \in Procs : SeekFails(p)
    \/ \E p \in Procs : ReadFails(p)
    \/ \E p \in Procs : Disconnect(p)
    \/ \E p \in Procs : Finalize(p)
    \/ \E p \in Procs : Release(p)
    \/ \E f \in Files : Grow(f)
    \/ \E f \in Files : Truncate(f)

Spec == Init /\ [][Next]_vars

(***************************************************************************)
(* The concurrent specification: app.run(threaded=True) serves every       *)
(* request on a thread of its own.  Two threads serve one request each,    *)
(* for either of two existing files that nobody changes meanwhile.         *)
(***************************************************************************)
ConcHeaders ==
    {NoHeader, Hdr(RangeText(0, 1)), Hdr(RangeText(1, 2)), Hdr(OpenText(1))}

ConcChunks == {1, 2}

InitConc ==
    /\ disk = [f \in Files |->
                  [exists |-> TRUE,
                   data |-> FileData(f, IF f = "a.mp4" THEN MaxSize ELSE 1)]]
    /\ histFile = {}
    /\ rq = [p \in Procs |-> IdleReq]
    /\ prev = [p \in Procs |-> NoPrev]
    /\ workers = Procs
    /\ pm = NoManager
    /\ gui = NoPlayer

NextConc ==
    \/ \E p \in Procs, f \in Files, h \in ConcHeaders, c \in ConcChunks : Begin(p, f, h, c)
    \/ \E p \in Procs : CheckExists(p)
    \/ \E p \in Procs : LoadHistory(p)
    \/ \E p \in Procs : SaveHistory(p)
    \/ \E p \in Procs : GetVideoInfo(p)
    \/ \E p \in Procs : OpenAndRespond(p)
    \/ \E p \in Procs : NextChunk(p)

SpecConc == InitConc /\ [][NextConc]_vars

(***************************************************************************)
(* The failure specification: the watch-history file cannot be read or     *)
(* written, and os.stat or open of the video raises (the file was removed  *)
(* or made unreadable after the existence check).                          *)
(***************************************************************************)
\* Mutant: the exception of the failed read leaves load_json_file and reaches
\* the handler's except.
LoadHistoryFailsUncaught(p) ==
    /\ rq[p].pc = "load"
    /\ rq' = [rq EXCEPT ![p] = ErrorResponse([@ EXCEPT !.histFailed = TRUE], 500)]
    /\ UNCHANGED <<disk, histFile, prev, workers, pm, gui>>

\* load_json_file, lines 65-67: open or json.load raises; the error is logged
\* and the default {} returned.
LoadHistoryFails(p) ==
    /\ rq[p].pc = "load"
    /\ rq' = [rq EXCEPT ![p].hist = {}, ![p].histFailed = TRUE, ![p].pc = "save"]
    /\ UNCHANGED <<disk, histFile, prev, workers, pm, gui>>

\* save_json_file, lines 71-75: open(filename, 'w') raises and the file is as
\* it was, or json.dump raises and the file is left without a readable entry;
\* the error is logged.
SaveHistoryFails(p) ==
    /\ rq[p].pc = "save"
    /\ histFile' \in {histFile, {}}
    /\ rq' = [rq EXCEPT ![p].hist = @ \cup {rq[p].file}, ![p].histFailed = TRUE,
                         ![p].pc = "info"]
    /\ UNCHANGED <<disk, prev, workers, pm, gui>>

\* Mutant: the exception of os.stat leaves the handler: the thread serving the
\* request ends without an answer.
StatFailsUncaught(p) ==
    /\ rq[p].pc = "info"
    /\ rq' = [rq EXCEPT ![p].osError = "stat", ![p].pc = "crashed"]
    /\ workers' = workers \ {p}
    /\ UNCHANGED <<disk, histFile, prev, pm, gui>>

\* get_video_info raises (os.stat): except Exception, line 423, answers 500.
StatFails(p) ==
    /\ rq[p].pc = "info"
    /\ rq' = [rq EXCEPT ![p] = ErrorResponse([@ EXCEPT !.osError = "stat"], 500)]
    /\ UNCHANGED <<disk, histFile, prev, workers, pm, gui>>

\* open(video_path, 'rb') raises: no file object, the answer is 500.
OpenFails(p) ==
    /\ rq[p].pc = "open"
    /\ rq' = [rq EXCEPT ![p] = ErrorResponse([@ EXCEPT !.osError = "open"], 500)]
    /\ UNCHANGED <<disk, histFile, prev, workers, pm, gui>>

FaultHeaders == {NoHeader, Hdr(RangeText(0, 1)), Hdr(OpenText(1)), Hdr(WrongUnitText)}

InitFault ==
    /\ disk = [f \in Files |->
                  IF f = "a.mp4" THEN [exists |-> TRUE, data |-> FileData(f, MaxSize)]
                  ELSE [exists |-> FALSE, data |-> <<>>]]
    /\ histFile = {}
    /\ rq = [p \in Procs |-> IdleReq]
    /\ prev = [p \in Procs |-> NoPrev]
    /\ workers = {"t1"}
    /\ pm = NoManager
    /\ gui = NoPlayer

NextFault ==
    \/ \E p \in Procs, f \in Files, h \in FaultHeaders, c \in ConcChunks : Begin(p, f, h, c)
    \/ \E p \in Procs : CheckExists(p)
    \/ \E p \in Procs : LoadHistory(p)
    \/ \E p \in Procs : LoadHistoryFails(p)
    \/ \E p \in Procs : SaveHistory(p)
    \/ \E p \in Procs : SaveHistoryFails(p)
    \/ \E p \in Procs : GetVideoInfo(p)
    \/ \E p \in Procs : StatFails(p)
    \/ \E p \in Procs : OpenAndRespond(p)
    \/ \E p \in Procs : OpenFails(p)
    \/ \E p \in Procs : NextChunk(p)
    \/ \E p \in Procs : Release(p)

SpecFault == InitFault /\ [][NextFault]_vars

(***************************************************************************)
(* PlaylistManager (web.py).  self.playlists is a defaultdict(list):       *)
(* reading self.playlists[name] for a name that is no key inserts the key  *)
(* with an empty list.  The methods are operators on the manager m.        *)
(***************************************************************************)
Elems(q) == {q[i] : i \in 1..Len(q)}

\* list.remove(x): the first occurrence of x is taken out.
PyListRemove(q, x) ==
    LET i == CHOOSE k \in 1..Len(q) : q[k] = x /\ \A j \in 1..(k - 1) : q[j] # x
    IN  SubSeq(q, 1, i - 1) \o SubSeq(q, i + 1, Len(q))

\* defaultdict.__getitem__: the mapping after self.playlists[name] was read.
DefaultGet(playlists, name) ==
    IF playlists[name].present THEN playlists
    ELSE [playlists EXCEPT ![name] = EmptyList]

\* json.dump(dict(self.playlists), f): names and videos are strings, which
\* JSON writes and reads back unchanged.
save_playlists(m) == [m EXCEPT !.file = m.playlists]

\* self.playlists = defaultdict(list, json.load(f)); the playlists file exists
\* (it is created at startup, lines 1088-1090).
load_playlists(m) == [m EXCEPT !.playlists = m.file]

create_playlist(m, name) ==
    IF ~m.playlists[name].present
    THEN [save_playlists([m EXCEPT !.playlists[name] = EmptyList]) EXCEPT !.result = TRUE]
    ELSE [m EXCEPT !.result = FALSE]

\* Mutant: the video is appended without looking whether it is there already.
add_to_playlist_unchecked(m, name, video) ==
    LET g == [m EXCEPT !.playlists = DefaultGet(@, name)]
    IN  [save_playlists([g EXCEPT !.playlists[name].videos = Append(@, video)])
            EXCEPT !.result = TRUE]

add_to_playlist(m, name, video) ==
    LET g == [m EXCEPT !.playlists = DefaultGet(@, name)]
    IN  IF video \notin Elems(g.playlists[name].videos)
        THEN [save_playlists([g EXCEPT !.playlists[name].videos = Append(@, video)])
                 EXCEPT !.result = TRUE]
        ELSE [g EXCEPT !.result = FALSE]

remove_from_playlist(m, name, video) ==
    LET g == [m EXCEPT !.playlists = DefaultGet(@, name)]
    IN  IF video \in Elems(g.playlists[name].videos)
        THEN [save_playlists([g EXCEPT !.playlists[name].videos = PyListRemove(@, video)])
                 EXCEPT !.result = TRUE]
        ELSE [g EXCEPT !.result = FALSE]

\* return self.playlists[name]: the list is left in m.listing.
get_playlist(m, name) ==
    LET g == [m EXCEPT !.playlists = DefaultGet(@, name)]
    IN  [g EXCEPT !.listing = g.playlists[name].videos]

\* return dict(self.playlists): a copy.
get_all_playlists(m) == m

delete_playlist(m, name) ==
    IF m.playlists[name].present
    THEN [save_playlists([m EXCEPT !.playlists[name] = NoList]) EXCEPT !.result = TRUE]
    ELSE [m EXCEPT !.result = FALSE]

\* The manager about to run a call: the description of the call is reset.
Called(op, name, video) ==
    [pm EXCEPT !.op = op, !.name = name, !.video = video, !.result = FALSE,
               !.status = 0, !.listing = <<>>, !.before = pm.playlists]

streamVars == <<disk, histFile, rq, prev, workers>>

CreatePlaylist(name) ==
    /\ pm' = create_playlist(Called("create_playlist", name, ""), name)
    /\ UNCHANGED <<streamVars, gui>>

AddToPlaylist(name, video) ==
    /\ pm' = add_to_playlist(Called("add_to_playlist", name, video), name, video)
    /\ UNCHANGED <<streamVars, gui>>

RemoveFromPlaylist(name, video) ==
    /\ pm' = remove_from_playlist(Called("remove_from_playlist", name, video), name, video)
    /\ UNCHANGED <<streamVars, gui>>

GetPlaylist(name) ==
    /\ pm' = get_playlist(Called("get_playlist", name, ""), name)
    /\ UNCHANGED <<streamVars, gui>>

GetAllPlaylists ==
    /\ pm' = get_all_playlists(Called("get_all_playlists", "", ""))
    /\ UNCHANGED <<streamVars, gui>>

DeletePlaylist(name) ==
    /\ pm' = delete_playlist(Called("delete_playlist", name, ""), name)
    /\ UNCHANGED <<streamVars, gui>>

LoadPlaylists ==
    /\ pm' = load_playlists(Called("load_playlists", "", ""))
    /\ UNCHANGED <<streamVars, gui>>

\* GET /api/playlists/<name>: 404 if the manager returns None, else the
\* information of those videos of the list that exist in the video directory.
GetPlaylistRoute(name) ==
    /\ LET g        == get_playlist(Called("GET /api/playlists/<name>", name, ""), name)
           playlist == g.playlists[name]
           is_none  == ~playlist.present
       IN  pm' = IF is_none THEN [g EXCEPT !.status = 404, !.listing = <<>>]
                 ELSE [g EXCEPT !.status = 200,
                                !.listing = SelectSeq(playlist.videos,
                                                      LAMBDA v : disk[v].exists)]
    /\ UNCHANGED <<streamVars, gui>>

\* GET, POST and DELETE /api/playlists; name and video are "" when the JSON
\* body has none.
HandlePlaylists(method, name, video) ==
    /\ LET c == Called(method, name, video)
       IN  pm' = CASE method = "GET" -> [get_all_playlists(c) EXCEPT !.status = 200]
                   [] name = "" -> [c EXCEPT !.status = 400]
                   [] method = "POST" /\ video # "" ->
                        [load_playlists(add_to_playlist(c, name, video)) EXCEPT !.status = 200]
                   [] method = "POST" /\ video = "" ->
                        [load_playlists(create_playlist(c, name)) EXCEPT !.status = 200]
                   [] method = "DELETE" /\ video # "" ->
                        [remove_from_playlist(c, name, video) EXCEPT !.status = 200]
                   [] method = "DELETE" /\ video = "" ->
                        [delete_playlist(c, name) EXCEPT !.status = 200]
    /\ UNCHANGED <<streamVars, gui>>

\* The playlists the manager finds in its file when the server starts.
StoredPlaylists ==
    {NoPlaylists, [NoPlaylists EXCEPT !["mix"] = [present |-> TRUE, videos |-> <<"a.mp4">>]]}

InitPlaylists ==
    /\ disk = [f \in Files |->
                  IF f = "a.mp4" THEN [exists |-> TRUE, data |-> FileData(f, 1)]
                  ELSE [exists |-> FALSE, data |-> <<>>]]
    /\ histFile = {}
    /\ rq = [p \in Procs |-> IdleReq]
    /\ prev = [p \in Procs |-> NoPrev]
    /\ workers = {}
    /\ \E stored \in StoredPlaylists :
          pm = [NoManager EXCEPT !.playlists = stored, !.file = stored, !.before = stored]
    /\ gui = NoPlayer

NextPlaylists ==
    \/ \E name \in PlNames : CreatePlaylist(name)
    \/ \E name \in PlNames, video \in Files : AddToPlaylist(name, video)
    \/ \E name \in PlNames, video \in Files : RemoveFromPlaylist(name, video)
    \/ \E name \in PlNames : GetPlaylist(name)
    \/ GetAllPlaylists
    \/ \E name \in PlNames : DeletePlaylist(name)
    \/ LoadPlaylists
    \/ \E name \in PlNames : GetPlaylistRoute(name)
    \/ \E method \in {"GET", "POST", "DELETE"}, name \in PlNames \cup {""},
          video \in Files \cup {""} : HandlePlaylists(method, name, video)

SpecPlaylists == InitPlaylists /\ [][NextPlaylists]_vars

(***************************************************************************)
(* The desktop players: ModernMediaPlayer (desktop.py) and                 *)
(* SimpleMediaPlayer (simple_desktop.py).  The methods are operators on    *)
(* the player g; launch says whether the platform starts a player (an      *)
(* installed player is found and Popen succeeds, or os.startfile returns). *)
(***************************************************************************)
Clips == 1..MaxClips

\* The orders in which the videos of a set can be listed.
Orders(folder) ==
    {q \in [1..Cardinality(folder) -> folder] :
        \A i, j \in 1..Cardinality(folder) : q[i] = q[j] => i = j}

\* Every listing of the videos of every folder.
Listings == UNION {Orders(folder) : folder \in SUBSET Clips}

\* order is sorted(...) of its videos.
Sorted(order) == \A i, j \in 1..Len(order) : i < j => order[i] < order[j]

\* self.playlist.index(file_path) if file_path in self.playlist else -1
IndexOf(playlist, file_path) ==
    IF \E i \in 1..Len(playlist) : playlist[i] = file_path
    THEN (CHOOSE i \in 1..Len(playlist) :
             playlist[i] = file_path /\ \A j \in 1..(i - 1) : playlist[j] # file_path) - 1
    ELSE -1

play_file(g, file_path, launch) ==
    LET t == IF g.current_process # 0
             THEN [g EXCEPT !.running = @ \ {g.current_process}, !.current_process = 0]
             ELSE g
        n == t.launched + 1
        l == CASE ~launch -> t
               [] g.os = "posix" ->
                    [t EXCEPT !.current_process = n, !.launched = n, !.running = @ \cup {n}]
               [] OTHER -> [t EXCEPT !.launched = n, !.running = @ \cup {n}]
        failed == g.os # "posix" /\ ~launch
    IN  [l EXCEPT !.played = file_path,
                  !.current_index = IF g.variant = "modern" /\ ~failed
                                    THEN IndexOf(g.playlist, file_path) ELSE @]

play_next(g, launch) ==
    IF g.playlist = <<>> THEN g
    ELSE LET i == (g.current_index + 1) % Len(g.playlist)
         IN  play_file([g EXCEPT !.current_index = i], g.playlist[i + 1], launch)

\* Mutant: the index is decremented without the modulo.
play_previous_unwrapped(g, launch) ==
    IF g.playlist = <<>> THEN g
    ELSE LET i == g.current_index - 1
             h == [g EXCEPT !.current_index = i]
         IN  IF i >= 0 THEN play_file(h, g.playlist[i + 1], launch) ELSE h

play_previous(g, launch) ==
    IF g.playlist = <<>> THEN g
    ELSE LET i == (g.current_index - 1) % Len(g.playlist)
         IN  play_file([g EXCEPT !.current_index = i], g.playlist[i + 1], launch)

\* The player about to run a call.
Clicked(op) ==
    [gui EXCEPT !.op = op, !.played = 0, !.before = gui.current_index,
                !.launchedBefore = gui.launched]

webVars == <<disk, histFile, rq, prev, workers, pm>>

\* open_folder: the dialog is cancelled or a folder is chosen: the playlist
\* becomes the listing of its videos, shuffled in desktop.py, sorted in
\* simple_desktop.py.
OpenFolder(chosen, order) ==
    /\ gui.variant = "simple" => Sorted(order)
    /\ gui' = IF ~chosen THEN Clicked("open_folder cancelled")
              ELSE [Clicked("open_folder") EXCEPT !.folder_path = Elems(order),
                                                  !.playlist = order,
                                                  !.current_index = -1]
    /\ UNCHANGED webVars

\* SimpleMediaPlayer.shuffle: asks for a folder if none was opened yet.
Shuffle(order) ==
    /\ gui.variant = "simple"
    /\ gui.folder_path # {} => Elems(order) = gui.folder_path
    /\ gui' = [Clicked("shuffle") EXCEPT !.folder_path = Elems(order), !.playlist = order,
                                         !.current_index = -1]
    /\ UNCHANGED webVars

\* A click on a video entry of ModernMediaPlayer (playlist, recent, favorites).
PlayFile(file_path, launch) ==
    /\ gui.variant = "modern"
    /\ gui.launched < MaxLaunch
    /\ gui' = play_file(Clicked("play_file"), file_path, launch)
    /\ UNCHANGED webVars

\* play_selected: desktop.py plays playlist[current_index] if there is one,
\* simple_desktop.py the item selected in the list box, if any.
PlaySelected(selection, launch) ==
    /\ gui.launched < MaxLaunch
    /\ selection \in 0..(Len(gui.playlist) - 1)
    /\ gui.variant = "modern" => selection = gui.current_index
    /\ gui' = play_file([Clicked("play_selected") EXCEPT !.current_index = selection],
                        gui.playlist[selection + 1], launch)
    /\ UNCHANGED webVars

PlayNext(launch) ==
    /\ gui.launched < MaxLaunch
    /\ gui' = play_next(Clicked("play_next"), launch)
    /\ UNCHANGED webVars

PlayPrevious(launch) ==
    /\ gui.launched < MaxLaunch
    /\ gui' = play_previous(Clicked("play_previous"), launch)
    /\ UNCHANGED webVars

InitDesktop ==
    /\ disk = [f \in Files |-> [exists |-> FALSE, data |-> <<>>]]
    /\ histFile = {}
    /\ rq = [p \in Procs |-> IdleReq]
    /\ prev = [p \in Procs |-> NoPrev]
    /\ workers = {}
    /\ pm = NoManager
    /\ \E variant \in {"modern", "simple"}, os \in {"posix", "nt"} :
          gui = [NoPlayer EXCEPT !.variant = variant, !.os = os]

NextDesktop ==
    \/ \E order \in Listings : \E chosen \in {TRUE, order # <<>>} :
          OpenFolder(chosen, order)
    \/ \E order \in Listings : Shuffle(order)
    \/ \E file_path \in Clips, launch \in BOOLEAN : PlayFile(file_path, launch)
    \/ \E selection \in 0..(MaxClips - 1), launch \in BOOLEAN : PlaySelected(selection, launch)
    \/ \E launch \in BOOLEAN : PlayNext(launch)
    \/ \E launch \in BOOLEAN : PlayPrevious(launch)

SpecDesktop == InitDesktop /\ [][NextDesktop]_vars

(***************************************************************************)
(* Properties.                                                             *)
(***************************************************************************)
\* The handler has returned its response.
Responded(r) == r.pc = "stream" \/ Ended(r)

Data(r) == disk[r.file].data

\* Bytes [s, e] of a file.
Slice(data, s, e) == IF s > e THEN <<>> ELSE SubSeq(data, s + 1, e + 1)

IsPrefix(a, b) == Len(a) <= Len(b) /\ SubSeq(b, 1, Len(a)) = a

\* "bytes <s>-<e>/<n>" and "bytes */<n>" for numbers of one digit.
ContentRangeOf(s, e, n) ==
    <<"b", "y", "t", "e", "s", " ", Digits[s + 1], "-", Digits[e + 1], "/", Digits[n + 1]>>

ContentRangeStar(n) == <<"b", "y", "t", "e", "s", " ", "*", "/", Digits[n + 1]>>

\* The request of r is for an existing file that nobody changed since.
Quiet(r) == Responded(r) /\ disk[r.file].exists /\ r.stable

\* C1: a request with Range: bytes=s-e, 0 <= s <= e <= byte_size-1, on an
\* unchanged file is answered 206 with Content-Range "bytes s-e/byte_size" and
\* Content-Length e-s+1; what has been delivered is always a prefix of bytes
\* [s, e] of the file, and is exactly bytes [s, e] once the body is exhausted.
C1_ValidRangeServed ==
    \A p \in Procs : \A s \in 0..MaxSize, e \in 0..MaxSize :
        LET r == rq[p]
            n == Len(Data(r))
        IN  (Quiet(r) /\ r.hdr = Hdr(RangeText(s, e)) /\ s <= e /\ e <= n - 1)
            => /\ r.status = 206
               /\ r.contentRange = ContentRangeOf(s, e, n)
               /\ r.contentLength = e - s + 1
               /\ IsPrefix(r.body, Slice(Data(r), s, e))
               /\ r.pc = "done" => r.body = Slice(Data(r), s, e)

C1_Witness ==
    \E p \in Procs :
        /\ rq[p].pc = "done" /\ rq[p].stable
        /\ rq[p].hdr = Hdr(RangeText(1, 2)) /\ Len(Data(rq[p])) = 3
        /\ rq[p].chunk = 1 /\ rq[p].status = 206
        /\ rq[p].body = <<2, 3>> /\ rq[p].chunks = <<1, 1>>

\* C2: a request without Range header for an existing, unchanged file is
\* answered 200 with Content-Length byte_size and no Content-Range; the body is
\* the whole file from offset 0 once exhausted, and for an empty file it is
\* empty and no read is issued.
C2_NoRangeFullBody ==
    \A p \in Procs :
        LET r == rq[p]
            n == Len(Data(r))
        IN  (Quiet(r) /\ ~r.hdr.present)
            => /\ r.status = 200
               /\ r.contentLength = n
               /\ r.contentRange = <<>>
               /\ IsPrefix(r.body, Data(r))
               /\ r.pc = "done" => r.body = Data(r)
               /\ n = 0 => r.body = <<>> /\ r.nreads = 0

C2_Witness ==
    \E p \in Procs :
        /\ rq[p].pc = "done" /\ rq[p].stable /\ ~rq[p].hdr.present
        /\ rq[p].chunk = 2 /\ rq[p].status = 200
        /\ rq[p].body = <<1, 2, 3>> /\ rq[p].chunks = <<2, 1>>

\* The Range header of r asks for a range that cannot be satisfied: its start
\* is not below byte_size, or its end, clamped to byte_size-1, is below start.
Unsatisfiable(r) ==
    \/ \E s \in 0..MaxSize, e \in 0..MaxSize :
          /\ r.hdr = Hdr(RangeText(s, e))
          /\ s >= r.total \/ Min(e, r.total - 1) < s
    \/ \E s \in 0..MaxSize : r.hdr = Hdr(OpenText(s)) /\ s >= r.total

\* C3: an unsatisfiable range is answered 416 with Content-Range
\* "bytes */byte_size" and an empty body, never 200 or 206.
C3_Unsatisfiable416 ==
    \A p \in Procs :
        LET r == rq[p]
        IN  (Quiet(r) /\ Unsatisfiable(r))
            => /\ r.status = 416
               /\ r.contentRange = ContentRangeStar(r.total)
               /\ r.body = <<>>

\* C4: a malformed Range header (wrong unit, non-numeric bound, no dash,
\* several ranges) is answered like a request without Range header: 200 and
\* the whole file, never an error status.
C4_MalformedTreatedAsAbsent ==
    \A p \in Procs :
        LET r == rq[p]
        IN  (Quiet(r) /\ r.hdr.present /\ r.hdr.text \in MalformedTexts)
            => /\ r.status = 200
               /\ r.contentLength = Len(Data(r))
               /\ r.pc = "done" => r.body = Data(r)

\* C5: a Range header whose end is past the last byte and whose start is
\* below byte_size is answered 206 for [start, byte_size-1]: Content-Range
\* "bytes start-(byte_size-1)/byte_size", Content-Length byte_size-start, and
\* the body is those bytes.
C5_EndClampedToLastByte ==
    \A p \in Procs : \A s \in 0..MaxSize, e \in 0..MaxSize :
        LET r == rq[p]
            n == Len(Data(r))
        IN  (Quiet(r) /\ r.hdr = Hdr(RangeText(s, e)) /\ e > n - 1 /\ s < n)
            => /\ r.status = 206
               /\ r.contentRange = ContentRangeOf(s, n - 1, n)
               /\ r.contentLength = n - s
               /\ r.pc = "done" => r.body = Slice(Data(r), s, n - 1)

C5_Witness ==
    \E p \in Procs :
        /\ rq[p].pc = "done" /\ rq[p].stable
        /\ rq[p].hdr = Hdr(<<"b", "y", "t", "e", "s", "=", "0", "-", "3">>)
        /\ Len(Data(rq[p])) = 2 /\ rq[p].status = 206
        /\ rq[p].contentRange = <<"b", "y", "t", "e", "s", " ", "0", "-", "1", "/", "2">>
        /\ rq[p].contentLength = 2
        /\ rq[p].body = <<1, 2>>

\* C6: an open-ended Range header bytes=N- with 0 <= N < byte_size is answered
\* 206 for [N, byte_size-1], with Content-Length byte_size-N.
C6_OpenEndedToLastByte ==
    \A p \in Procs : \A s \in 0..MaxSize :
        LET r == rq[p]
            n == Len(Data(r))
        IN  (Quiet(r) /\ r.hdr = Hdr(OpenText(s)) /\ s < n)
            => /\ r.status = 206
               /\ r.start = s /\ r.end = n - 1
               /\ r.contentRange = ContentRangeOf(s, n - 1, n)
               /\ r.contentLength = n - s
               /\ r.pc = "done" => r.body = Slice(Data(r), s, n - 1)

C6_Witness ==
    \E p \in Procs :
        /\ rq[p].pc = "done" /\ rq[p].stable
        /\ rq[p].hdr = Hdr(<<"b", "y", "t", "e", "s", "=", "1", "-">>)
        /\ Len(Data(rq[p])) = 3 /\ rq[p].status = 206
        /\ rq[p].start = 1 /\ rq[p].end = 2 /\ rq[p].contentLength = 2
        /\ rq[p].body = <<2, 3>>

\* C7: whatever the Range header and however the file changes, no byte at an
\* offset past end (past byte_size-1 for a full response) is delivered, and
\* the bytes delivered never outnumber the declared Content-Length.
C7_NeverPastEnd ==
    \A p \in Procs :
        LET r == rq[p]
        IN  r.kind \in {"partial", "full"}
            => /\ r.maxOff <= (IF r.kind = "partial" THEN r.end ELSE r.total - 1)
               /\ Len(r.body) <= r.contentLength

\* The response of r is a full one or one for a range inside the file.
ValidSpan(r) ==
    \/ r.kind = "full"
    \/ r.kind = "partial" /\ 0 <= r.start /\ r.start <= r.end /\ r.end <= r.total - 1

RECURSIVE SumSeq(_)
SumSeq(q) == IF Len(q) = 0 THEN 0 ELSE Head(q) + SumSeq(Tail(q))

\* C8: the same request for the same unchanged file, served with another
\* chunk size, delivers the same bytes: for a full response or a valid range
\* the body equals that of the earlier response, and the chunk size shows only
\* in the chunks, which are all of chunk size but a shorter, non-empty last one.
C8_ChunkSizeIndependent ==
    \A p \in Procs :
        LET r == rq[p]
            q == prev[p]
        IN  (q.valid /\ r.pc = "done" /\ r.stable /\ r.chunk # q.chunk /\ ValidSpan(r))
            => /\ r.body = q.body
               /\ SumSeq(r.chunks) = Len(r.body)
               /\ \A i \in 1..Len(r.chunks) :
                     /\ 1 <= r.chunks[i] /\ r.chunks[i] <= r.chunk
                     /\ i < Len(r.chunks) => r.chunks[i] = r.chunk

C8_Witness ==
    \E p \in Procs :
        /\ prev[p].valid /\ prev[p].chunk = 1 /\ prev[p].body = <<1, 2, 3>>
        /\ rq[p].pc = "done" /\ rq[p].stable /\ rq[p].chunk = 2
        /\ rq[p].kind = "partial" /\ rq[p].start = 0 /\ rq[p].end = 2
        /\ rq[p].body = <<1, 2, 3>> /\ rq[p].chunks = <<2, 1>>

\* C9: once the body of a response is exhausted, or the client has left
\* mid-stream, the file handle opened for the response is closed.
C9_HandleClosedAtEnd ==
    \A p \in Procs :
        (Ended(rq[p]) /\ rq[p].kind \in {"partial", "full"}) => ~rq[p].open

\* C10: a request repeated on an unchanged file (same file, same Range header,
\* same chunk size) gets the same status, Content-Range, Content-Length and
\* body as the first time.
C10_RepeatedRequestSameResponse ==
    \A p \in Procs :
        LET r == rq[p]
            q == prev[p]
        IN  (q.valid /\ r.pc = "done" /\ r.stable /\ r.chunk = q.chunk)
            => /\ r.status = q.status
               /\ r.contentRange = q.contentRange
               /\ r.contentLength = q.contentLength
               /\ r.errorBody = q.errorBody
               /\ r.body = q.body

C10_Witness ==
    \E p \in Procs :
        /\ prev[p].valid /\ prev[p].chunk = rq[p].chunk /\ prev[p].status = 200
        /\ prev[p].body = <<1, 2, 3>>
        /\ rq[p].pc = "done" /\ rq[p].stable /\ rq[p].status = 200
        /\ rq[p].body = <<1, 2, 3>>

\* C11: a request for a file that does not exist is answered 404 with a JSON
\* error body and nothing else, whatever its Range header: the request opens
\* no file, parses no Range header and delivers no byte.
C11_MissingFile404 ==
    \A p \in Procs :
        LET r == rq[p]
        IN  (r.pc # "idle" /\ ~disk[r.file].exists)
            => /\ ~r.opened /\ ~r.parsed
               /\ r.body = <<>> /\ r.nreads = 0
               /\ r.pc \in {"exists", "done"}
               /\ r.pc = "done" => /\ r.status = 404 /\ r.errorBody
                                   /\ r.kind = "error" /\ r.contentRange = <<>>

C11_Witness ==
    \E p \in Procs :
        /\ rq[p].pc = "done" /\ ~disk[rq[p].file].exists
        /\ rq[p].hdr = Hdr(WrongUnitText)
        /\ rq[p].status = 404 /\ rq[p].errorBody /\ ~rq[p].opened

\* C18: once a seek or a read of a response has failed with an I/O error the
\* response is over: the operation is not tried again, and until the thread
\* takes its next request no chunk is added and no read is issued.
C18_IOFailureAborts ==
    [][\A p \in Procs :
          rq[p].ioError
          => \/ rq'[p].pc = "idle"
             \/ /\ rq[p].pc = "failed" /\ rq'[p].pc = "failed"
                /\ rq'[p].body = rq[p].body
                /\ rq'[p].chunks = rq[p].chunks
                /\ rq'[p].nreads = rq[p].nreads]_vars

C18_Witness ==
    \E p \in Procs :
        /\ rq[p].ioError /\ rq[p].pc = "failed"
        /\ rq[p].kind = "partial" /\ rq[p].start = 1 /\ rq[p].end = 2
        /\ rq[p].body = <<2>> /\ rq[p].nreads = 2 /\ rq[p].remaining = 1

\* C14: every response with status 206 describes a well-formed inclusive
\* range: 0 <= start <= end <= byte_size-1, and its Content-Length is >= 1.
C14_WellFormed206 ==
    \A p \in Procs :
        LET r == rq[p]
        IN  (Responded(r) /\ r.status = 206)
            => /\ 0 <= r.start /\ r.start <= r.end /\ r.end <= r.total - 1
               /\ r.contentLength >= 1

\* The offset the body of r starts at.
FirstOffset(r) == IF r.kind = "partial" THEN r.start ELSE 0

\* The generator of p ends on a read that gave no data while remaining > 0.
EarlyStop(p) ==
    rq[p].pc = "stream" /\ rq'[p].pc = "done" /\ rq'[p].remaining > 0

\* C15: when a read returns no data while remaining > 0 (the file was cut
\* after its size was taken) the body ends there: nothing is left at the
\* cursor, what was delivered are the bytes from the start offset on, in
\* order, the generator ends without raising, and no read follows.
C15_PrematureEofEndsBody ==
    /\ [](\A p \in Procs : (ValidSpan(rq[p]) /\ ~rq[p].ioError) => rq[p].pc # "failed")
    /\ [][\A p \in Procs :
             /\ EarlyStop(p)
                => /\ Len(disk[rq[p].file].data) <= rq'[p].pos
                   /\ rq'[p].nreads = rq[p].nreads + 1
                   /\ rq'[p].body = rq[p].body
                   /\ rq'[p].pos = FirstOffset(rq[p]) + Len(rq[p].body)
                   /\ \A i \in 1..Len(rq[p].body) :
                         rq[p].body[i] = ByteAt(rq[p].file, FirstOffset(rq[p]) + i - 1)
             /\ (rq[p].pc = "done" /\ rq'[p].pc # "idle")
                => /\ rq'[p].pc = "done"
                   /\ rq'[p].nreads = rq[p].nreads
                   /\ rq'[p].body = rq[p].body]_vars

C15_Witness ==
    \E p \in Procs :
        /\ rq[p].pc = "done" /\ rq[p].remaining = 2 /\ ~rq[p].stable
        /\ rq[p].kind = "full" /\ rq[p].contentLength = 3
        /\ rq[p].body = <<1>> /\ rq[p].nreads = 2
        /\ Len(Data(rq[p])) = 1

Abs(n) == IF n < 0 THEN 0 - n ELSE n

\* C16: body production terminates for every start, end, total and chunk size:
\* each iteration of the loop that yields brings remaining strictly closer to
\* zero, and the generator finishes (it does not end by raising, unless a seek
\* or read failed with an I/O error).
C16_RemainingApproachesZero ==
    /\ [](\A p \in Procs : rq[p].pc = "failed" => rq[p].ioError)
    /\ [][\A p \in Procs :
             (rq[p].pc = "stream" /\ rq'[p].pc = "stream"
                 /\ rq'[p].nreads = rq[p].nreads + 1)
             => Abs(rq'[p].remaining) < Abs(GenRemaining(rq[p]))]_vars

\* C17: every chunk yielded is non-empty and at most chunk_size long, and for
\* a valid range remaining never goes below zero.
C17_ChunksBounded ==
    \A p \in Procs :
        LET r == rq[p]
        IN  r.kind \in {"partial", "full"}
            => /\ \A i \in 1..Len(r.chunks) : 1 <= r.chunks[i] /\ r.chunks[i] <= r.chunk
               /\ (ValidSpan(r) /\ r.started) => r.remaining >= 0

\* C19: a request that fails after it has opened the file and before it has
\* returned a streaming response (the Range header does not parse, status 500)
\* ends with the handle it opened closed.
C19_HandleClosedOnError ==
    \A p \in Procs :
        (Ended(rq[p]) /\ rq[p].opened /\ rq[p].errorBody) => ~rq[p].open

\* C20: the watch history is written only for a request whose stream starts:
\* not before the handler has returned its response, and never by a request
\* that is answered with an error status.
C20_HistoryOnlyOnStreamStart ==
    \A p \in Procs :
        rq[p].wrote => Responded(rq[p]) /\ rq[p].status \in {200, 206}

\* The response of r as the handler returned it, nothing read yet.
FreshResponse(r) ==
    [r EXCEPT !.pc = "stream", !.started = FALSE, !.remaining = 0, !.pos = 0,
              !.body = <<>>, !.chunks = <<>>, !.nreads = 0, !.maxOff = -1]

\* The generator of r run to its end with nothing else happening.
RECURSIVE RunAlone(_, _)
RunAlone(r, data) == IF r.pc # "stream" THEN r ELSE RunAlone(GenNext(r, data), data)

\* C12: however the chunk reads of concurrent responses interleave, each
\* response delivers what it delivers when it runs alone: what it has
\* delivered so far is a prefix of that body, and all of it once it has ended;
\* for a full response or a valid range that is bytes [start, end] of the file.
C12_InterleavingKeepsBodies ==
    \A p \in Procs :
        LET r     == rq[p]
            alone == RunAlone(FreshResponse(r), Data(r))
        IN  r.kind \in {"partial", "full"}
            => /\ IsPrefix(r.body, alone.body)
               /\ Ended(r) => r.body = alone.body /\ r.pc = alone.pc
               /\ (ValidSpan(r) /\ Ended(r))
                  => r.body = Slice(Data(r), FirstOffset(r),
                                    IF r.kind = "partial" THEN r.end ELSE r.total - 1)

C12_Witness ==
    /\ rq["t1"].file = "a.mp4" /\ rq["t2"].file = "a.mp4"
    /\ rq["t1"].kind = "full" /\ rq["t1"].chunk = 1
    /\ rq["t1"].pc = "stream" /\ rq["t1"].body = <<1, 2>>
    /\ rq["t2"].kind = "partial" /\ rq["t2"].start = 1 /\ rq["t2"].end = 2
    /\ rq["t2"].chunk = 1 /\ rq["t2"].pc = "done" /\ rq["t2"].body = <<2, 3>>

\* C13: concurrent requests for different files leave the persisted state of
\* some sequential execution: once every thread has saved the history, the
\* history has an entry for the file of each of them.
C13_NoLostHistoryUpdate ==
    (\A p \in Procs : rq[p].wrote) => \A p \in Procs : rq[p].file \in histFile

\* The request of p carries a suffix Range header 'bytes=-N'.
IsSuffixRequest(r) == \E n \in 1..MaxSize : r.hdr = Hdr(SuffixText(n))

SuffixLength(r) == CHOOSE n \in 1..MaxSize : r.hdr = Hdr(SuffixText(n))

\* C22: a request with a suffix Range header 'bytes=-N' is answered 206 with
\* the last N bytes of the file, [total - N, total - 1], or it is rejected
\* with an error status and no byte of the file; it never gets a 200 or a 206
\* with another span.
C22_SuffixServedOrRejected ==
    \A p \in Procs :
        LET r == rq[p]
        IN  (IsSuffixRequest(r) /\ Responded(r))
            => \/ /\ r.status = 206
                  /\ r.start = r.total - SuffixLength(r)
                  /\ r.end = r.total - 1
                  /\ r.contentRange = ContentRangeOf(r.start, r.end, r.total)
               \/ /\ r.status \notin {200, 206}
                  /\ r.errorBody /\ r.body = <<>> /\ r.nreads = 0

C22_Witness ==
    \E p \in Procs :
        /\ rq[p].hdr = Hdr(SuffixText(2)) /\ rq[p].total = 3
        /\ rq[p].opened /\ rq[p].parsed
        /\ rq[p].pc = "done" /\ rq[p].status = 500 /\ rq[p].errorBody

\* C24: GET /api/playlists/<name> for a name that is no playlist is answered
\* 404; the route answers with a list of videos only when the playlist exists.
C24_UnknownPlaylist404 ==
    pm.op = "GET /api/playlists/<name>"
    => /\ ~pm.before[pm.name].present => pm.status = 404
       /\ pm.status = 200 => pm.before[pm.name].present

\* C25: get_playlist, get_all_playlists, and a remove_from_playlist or
\* delete_playlist that returns False leave the playlists as they were: no key
\* is added or removed, no list altered.
C25_ReadOnlyCallsChangeNothing ==
    (\/ pm.op \in {"get_playlist", "get_all_playlists"}
     \/ pm.op \in {"remove_from_playlist", "delete_playlist"} /\ ~pm.result)
    => pm.playlists = pm.before

ManagerCalls ==
    {"create_playlist", "add_to_playlist", "remove_from_playlist", "get_playlist",
     "delete_playlist"}

\* C26: after every call of a PlaylistManager method the playlists in memory
\* are the playlists in the file.
C26_MemoryEqualsFile ==
    pm.op \in ManagerCalls => pm.playlists = pm.file

NoDuplicates(q) == \A i, j \in 1..Len(q) : q[i] = q[j] => i = j

\* C27: no playlist, in memory or in the file, holds a video twice;
\* add_to_playlist returns True exactly when the video was not in the playlist
\* before the call, and when it returns False the list is what it was.
C27_NoDuplicateVideos ==
    /\ \A n \in PlNames : /\ NoDuplicates(pm.playlists[n].videos)
                          /\ NoDuplicates(pm.file[n].videos)
    /\ pm.op = "add_to_playlist"
       => /\ pm.result = (pm.video \notin Elems(pm.before[pm.name].videos))
          /\ pm.result => pm.playlists[pm.name].videos
                            = Append(pm.before[pm.name].videos, pm.video)
          /\ ~pm.result => pm.playlists[pm.name].videos = pm.before[pm.name].videos

C27_Witness ==
    /\ pm.op = "add_to_playlist" /\ pm.name = "mix" /\ pm.video = "b.mp4"
    /\ ~pm.result
    /\ pm.before["mix"].videos = <<"a.mp4", "b.mp4">>
    /\ pm.playlists["mix"].videos = <<"a.mp4", "b.mp4">>

\* C28: of the player processes launched so far only the one launched last
\* can still be running, and it is the one tracked in current_process: every
\* play_file terminated the process launched before it.
C28_OnlyLatestProcessRuns ==
    /\ gui.running \subseteq {gui.launched}
    /\ gui.current_process # 0 => gui.current_process \in gui.running
    /\ gui.running # {} => gui.current_process = gui.launched

NavigationCalls == {"play_next", "play_previous"}

\* C29: current_index is always in [-1, len(playlist) - 1]; open_folder sets it
\* to -1; play_next and play_previous change nothing and start no process on
\* an empty playlist, and on a non-empty one leave it in [0, len(playlist) - 1]
\* and play playlist[current_index].
C29_IndexInRange ==
    /\ -1 <= gui.current_index /\ gui.current_index <= Len(gui.playlist) - 1
    /\ gui.op \in {"open_folder", "shuffle"} => gui.current_index = -1
    /\ (gui.op \in NavigationCalls /\ gui.playlist = <<>>)
       => /\ gui.current_index = gui.before
          /\ gui.launched = gui.launchedBefore
          /\ gui.played = 0
    /\ (gui.op \in NavigationCalls /\ gui.playlist # <<>>)
       => /\ 0 <= gui.current_index
          /\ gui.played = gui.playlist[gui.current_index + 1]

C29_Witness ==
    /\ gui.op = "play_previous" /\ gui.before = 0
    /\ Len(gui.playlist) = 3 /\ gui.current_index = 2
    /\ gui.played = gui.playlist[3]

\* C30: play_next from the last item plays the first and play_previous from the
\* first plays the last; with no selection (current_index = -1) and at least
\* two videos, play_next plays item 0 and play_previous plays the last item.
C30_SymmetricWrapAround ==
    LET n == Len(gui.playlist)
    IN  /\ (gui.op = "play_next" /\ n >= 1 /\ gui.before = n - 1)
           => gui.played = gui.playlist[1]
        /\ (gui.op = "play_previous" /\ n >= 1 /\ gui.before = 0)
           => gui.played = gui.playlist[n]
        /\ (gui.op = "play_next" /\ n >= 2 /\ gui.before = -1)
           => gui.played = gui.playlist[1]
        /\ (gui.op = "play_previous" /\ n >= 2 /\ gui.before = -1)
           => gui.played = gui.playlist[n]

\* An exception was raised inside the handler before it returned a response:
\* by os.stat, by open, or by the parsing of the Range header.
Raised(r) == r.osError # "" \/ (r.opened /\ r.kind = "error")

\* The same of the response kept from the request before.
RaisedBefore(q) == q.osError # "" \/ q.status = 500

\* C21: a failed read or write of the watch-history file never fails the
\* stream: such a request is answered 200 or 206 unless something else
\* raises, and its status, Content-Range, Content-Length and body are those of
\* the same request served while the history file could be read and written.
C21_HistoryFailureHarmless ==
    \A p \in Procs :
        LET r == rq[p]
            q == prev[p]
        IN  /\ (r.histFailed /\ Responded(r) /\ ~Raised(r)) => r.status \in {200, 206}
            /\ (q.valid /\ r.pc = "done" /\ r.chunk = q.chunk
                   /\ r.osError = "" /\ q.osError = "" /\ r.histFailed # q.histFailed)
               => /\ r.status = q.status
                  /\ r.contentRange = q.contentRange
                  /\ r.contentLength = q.contentLength
                  /\ r.errorBody = q.errorBody
                  /\ r.body = q.body

C21_Witness ==
    \E p \in Procs :
        /\ prev[p].valid /\ ~prev[p].histFailed /\ prev[p].status = 206
        /\ prev[p].body = <<1, 2>> /\ prev[p].chunk = rq[p].chunk
        /\ rq[p].histFailed /\ rq[p].pc = "done" /\ rq[p].status = 206
        /\ rq[p].body = <<1, 2>> /\ histFile = {}

\* C23: an exception raised in the handler before it returns (by os.stat, by
\* open, by the parsing of the Range header) is answered with status 500 and
\* a JSON error body and nothing of the file; the thread stays in service, and
\* the request it serves next, if nothing raises, is answered 200 or 206 with
\* the body its generator produces.
C23_HandlerExceptionsAnswered ==
    \A p \in Procs :
        LET r == rq[p]
        IN  /\ r.pc # "idle" => p \in workers
            /\ r.pc \in {"idle", "exists", "load", "save", "info", "open", "stream",
                         "done", "aborted", "failed"}
            /\ Raised(r) => /\ r.pc = "done" /\ r.status = 500 /\ r.errorBody
                            /\ r.body = <<>> /\ r.nreads = 0
            /\ (prev[p].valid /\ RaisedBefore(prev[p]) /\ r.pc = "done" /\ ~Raised(r))
               => /\ r.status \in {200, 206}
                  /\ r.body = RunAlone(FreshResponse(r), Data(r)).body

C23_Witness ==
    \E p \in Procs :
        /\ prev[p].valid /\ prev[p].osError = "stat" /\ prev[p].status = 500
        /\ prev[p].errorBody
        /\ rq[p].pc = "done" /\ rq[p].osError = "" /\ rq[p].status = 200
        /\ rq[p].body = <<1, 2, 3>>

=============================================================================
